---- MODULE Spec2Model ----
(***************************************************************************)
(* Bookmark persistence/service core of fgeck/tools.                       *)
(*                                                                         *)
(* The backing YAML document is the variable `file`.  Every repository     *)
(* method of YAMLBookmarkRepository takes r.mu for its whole body          *)
(* (Lock/RLock on entry, deferred unlock), so one repository call is one   *)
(* atomic step on `file`.  A Service method that makes several repository  *)
(* calls is one step per repository call; other callers of the same        *)
(* process may run between two such steps.  Enter/Leave below split one    *)
(* repository method at the point where it holds r.mu and has loaded the   *)
(* file, which is where the mutex matters.                                 *)
(*                                                                         *)
(* A Go string is a sequence of one-character strings.                     *)
(***************************************************************************)
EXTENDS Naturals, Sequences, FiniteSets, TLC

VARIABLES
    file,      \* the parsed content of the YAML file: sequence of mappings
    pc,        \* pc[p]: where caller p stands: "idle", inside a call, or "done"
    op,        \* op[p]: the call p is in: [name, req]
    existing,  \* existing[p]: UpdateBookmark's local *models.Bookmark
    ret,       \* ret[p]: error returned by p's call
    resp,      \* resp[p]: value returned by p's call
    writes,    \* writes[p]: number of save() calls made by p's call
    before,    \* before[p]: the document when p's call started
    calls,     \* calls[p]: number of repository methods p's call has called
    disk,      \* what os.Stat/os.ReadFile meet at the path: "absent", "ok", "unreadable"
    mu,        \* r.mu: [writer: the caller holding Lock or 0, readers: callers holding RLock]
    loaded     \* loaded[p]: the document load() read for p inside a method

vars == <<file, pc, op, existing, ret, resp, writes, before, calls, disk, mu, loaded>>

(***************************************************************************)
(* Bounds and input sets                                                   *)
(***************************************************************************)
\* longest document on which a caller still starts a call; the commands
\* offered below fill a document of this length
MaxRecords == 3

Procs == {1, 2}

\* strings offered as command, tool name and description
Commands == {<<"a">>, <<"b">>, <<"c">>}
ToolNames == {<<"k">>, <<"d">>}
Descriptions == {<<"x">>, <<"y">>}
\* the empty string and whitespace-only strings
Blanks == {<<>>, <<" ">>, <<" ", " ", " ">>}

(***************************************************************************)
(* strings.TrimSpace                                                       *)
(***************************************************************************)
IsSpace(ch) == ch \in {" ", "\t", "\n", "\r"}

RECURSIVE TrimLeft(_)
TrimLeft(s) ==
    IF s = <<>> THEN <<>>
    ELSE IF IsSpace(Head(s)) THEN TrimLeft(Tail(s)) ELSE s

RECURSIVE TrimRight(_)
TrimRight(s) ==
    IF s = <<>> THEN <<>>
    ELSE IF IsSpace(s[Len(s)]) THEN TrimRight(SubSeq(s, 1, Len(s) - 1)) ELSE s

TrimSpace(s) == TrimRight(TrimLeft(s))

(***************************************************************************)
(* models.Bookmark and the YAML document                                   *)
(***************************************************************************)
Bookmark(c, t, d) == [Command |-> c, ToolName |-> t, Description |-> d]

NoBookmark == Bookmark(<<>>, <<>>, <<>>)

\* mutant: the description is not written to the document
MarshalBookmark_DropsDescription(b) ==
    [command |-> b.Command, toolname |-> b.ToolName, description |-> <<>>]

\* yaml.Marshal of one models.Bookmark: a mapping keyed by the lower-cased
\* field names (the struct carries no yaml tags).
MarshalBookmark(b) ==
    [command |-> b.Command, toolname |-> b.ToolName, description |-> b.Description]

UnmarshalBookmark(m) ==
    [Command |-> m.command, ToolName |-> m.toolname, Description |-> m.description]

\* load: read the file and unmarshal it into yamlStorage.Bookmarks
load(f) == [i \in 1..Len(f) |-> UnmarshalBookmark(f[i])]

\* save: marshal yamlStorage.Bookmarks and write the whole file
save(bookmarks) == [i \in 1..Len(bookmarks) |-> MarshalBookmark(bookmarks[i])]

(***************************************************************************)
(* YAMLBookmarkRepository methods as functions of the document.            *)
(* Each returns [err, file, wrote] and, for reads, the value read.         *)
(***************************************************************************)
\* index of the first element the range loop matches, 0 when none matches
FirstIndex(bookmarks, command) ==
    IF \E i \in 1..Len(bookmarks) : bookmarks[i].Command = command
    THEN CHOOSE i \in 1..Len(bookmarks) :
            /\ bookmarks[i].Command = command
            /\ \A j \in 1..(i - 1) : bookmarks[j].Command # command
    ELSE 0

\* mutant: the duplicate check is left out
Create_NoDuplicateCheck(f, example) ==
    [err |-> "nil", file |-> save(Append(load(f), example)), wrote |-> 1]

\* mutant: the new record is put in front of the others
Create_Prepends(f, example) ==
    LET storage == load(f) IN
    IF \E i \in 1..Len(storage) : storage[i].Command = example.Command
    THEN [err |-> "AlreadyExists", file |-> f, wrote |-> 0]
    ELSE [err |-> "nil", file |-> save(<<example>> \o storage), wrote |-> 1]

Create(f, example) ==
    LET storage == load(f) IN
    IF \E i \in 1..Len(storage) : storage[i].Command = example.Command
    THEN [err |-> "AlreadyExists", file |-> f, wrote |-> 0]
    ELSE [err |-> "nil", file |-> save(Append(storage, example)), wrote |-> 1]

GetByCommand(f, command) ==
    LET storage == load(f)
        i == FirstIndex(storage, command) IN
    IF i # 0
    THEN [err |-> "nil", bookmark |-> storage[i]]
    ELSE [err |-> "NotFound", bookmark |-> NoBookmark]

List(f) == load(f)

ListByToolName(f, toolName) ==
    LET storage == load(f) IN
    SelectSeq(storage, LAMBDA ex : ex.ToolName = toolName)

\* mutant: a record whose command is not stored is appended
Update_Upserts(f, example) ==
    LET storage == load(f)
        i == FirstIndex(storage, example.Command) IN
    IF i # 0
    THEN [err |-> "nil", file |-> save([storage EXCEPT ![i] = example]), wrote |-> 1]
    ELSE [err |-> "nil", file |-> save(Append(storage, example)), wrote |-> 1]

\* mutant: the matching record is removed and the new value appended
Update_MovesToEnd(f, example) ==
    LET storage == load(f)
        i == FirstIndex(storage, example.Command) IN
    IF i # 0
    THEN [err |-> "nil",
          file |-> save(Append(SubSeq(storage, 1, i - 1)
                                 \o SubSeq(storage, i + 1, Len(storage)), example)),
          wrote |-> 1]
    ELSE [err |-> "NotFound", file |-> f, wrote |-> 0]

Update(f, example) ==
    LET storage == load(f)
        i == FirstIndex(storage, example.Command) IN
    IF i # 0
    THEN [err |-> "nil", file |-> save([storage EXCEPT ![i] = example]), wrote |-> 1]
    ELSE [err |-> "NotFound", file |-> f, wrote |-> 0]

\* mutant: the slice after the match starts one element too far
Delete_DropsNext(f, command) ==
    LET storage == load(f)
        i == FirstIndex(storage, command) IN
    IF i # 0
    THEN [err |-> "nil",
          file |-> save(SubSeq(storage, 1, i - 1) \o SubSeq(storage, i + 2, Len(storage))),
          wrote |-> 1]
    ELSE [err |-> "NotFound", file |-> f, wrote |-> 0]

Delete(f, command) ==
    LET storage == load(f)
        i == FirstIndex(storage, command) IN
    IF i # 0
    THEN [err |-> "nil",
          file |-> save(SubSeq(storage, 1, i - 1) \o SubSeq(storage, i + 1, Len(storage))),
          wrote |-> 1]
    ELSE [err |-> "NotFound", file |-> f, wrote |-> 0]

\* mutant: only the first record of the group is removed
DeleteByToolName_FirstOnly(f, toolName) ==
    LET storage == load(f)
        hits == {i \in 1..Len(storage) : storage[i].ToolName = toolName}
        i == CHOOSE k \in hits : \A j \in hits : k <= j IN
    IF hits = {}
    THEN [err |-> "NotFound", file |-> f, wrote |-> 0]
    ELSE [err |-> "nil",
          file |-> save(SubSeq(storage, 1, i - 1) \o SubSeq(storage, i + 1, Len(storage))),
          wrote |-> 1]

\* mutant: zero matches are not an error, the filtered list is saved anyway
DeleteByToolName_Idempotent(f, toolName) ==
    LET storage == load(f)
        filtered == SelectSeq(storage, LAMBDA ex : ex.ToolName # toolName) IN
    [err |-> "nil", file |-> save(filtered), wrote |-> 1]

DeleteByToolName(f, toolName) ==
    LET storage == load(f)
        filtered == SelectSeq(storage, LAMBDA ex : ex.ToolName # toolName)
        found == \E i \in 1..Len(storage) : storage[i].ToolName = toolName IN
    IF ~found
    THEN [err |-> "NotFound", file |-> f, wrote |-> 0]
    ELSE [err |-> "nil", file |-> save(filtered), wrote |-> 1]

\* mutant: the scan compares the tool name instead of the command
Exists_ByToolName(f, command) ==
    LET storage == load(f) IN
    \E i \in 1..Len(storage) : storage[i].ToolName = command

Exists(f, command) ==
    LET storage == load(f) IN
    \E i \in 1..Len(storage) : storage[i].Command = command

(***************************************************************************)
(* Service helpers                                                         *)
(***************************************************************************)
\* mutant: the fields are compared with "" without trimming
validateCreateRequest_NoTrim(req) ==
    IF req.Command = <<>> THEN "ValidationError"
    ELSE IF req.ToolName = <<>> THEN "ValidationError"
    ELSE IF req.Description = <<>> THEN "ValidationError"
    ELSE "nil"

validateCreateRequest(req) ==
    IF TrimSpace(req.Command) = <<>> THEN "ValidationError"
    ELSE IF TrimSpace(req.ToolName) = <<>> THEN "ValidationError"
    ELSE IF TrimSpace(req.Description) = <<>> THEN "ValidationError"
    ELSE "nil"

modelToDTO(example) ==
    [Command |-> example.Command, ToolName |-> example.ToolName,
     Description |-> example.Description]

NoResp == <<>>

(***************************************************************************)
(* Initial state: NewYAMLBookmarkRepository on a path with no file writes  *)
(* the empty document; no caller has started a call.                       *)
(***************************************************************************)
NoOp == [name |-> "none", req |-> NoBookmark]

\* the zero value of sync.RWMutex
Unlocked == [writer |-> 0, readers |-> {}]

Init ==
    /\ file = save(<<>>)
    /\ pc = [p \in Procs |-> "idle"]
    /\ op = [p \in Procs |-> NoOp]
    /\ existing = [p \in Procs |-> NoBookmark]
    /\ ret = [p \in Procs |-> "nil"]
    /\ resp = [p \in Procs |-> NoResp]
    /\ writes = [p \in Procs |-> 0]
    /\ before = [p \in Procs |-> save(<<>>)]
    /\ calls = [p \in Procs |-> 0]
    /\ disk = "ok"
    /\ mu = Unlocked
    /\ loaded = [p \in Procs |-> save(<<>>)]

(***************************************************************************)
(* Bookkeeping of a call: what starts it and what ends it                  *)
(***************************************************************************)
\* caller p enters a method: remember the call and the document it met
Begin(p, name, req) ==
    /\ pc[p] = "idle"
    /\ Len(file) <= MaxRecords
    /\ op' = [op EXCEPT ![p] = [name |-> name, req |-> req]]
    /\ before' = [before EXCEPT ![p] = file]
    /\ UNCHANGED <<disk, mu, loaded>>

\* the method returns (err, value) to caller p
Return(p, err, value) ==
    /\ pc' = [pc EXCEPT ![p] = "done"]
    /\ ret' = [ret EXCEPT ![p] = err]
    /\ resp' = [resp EXCEPT ![p] = value]

\* the method goes on to its next repository call
Goto(p, label) ==
    /\ pc' = [pc EXCEPT ![p] = label]
    /\ UNCHANGED <<ret, resp>>

(***************************************************************************)
(* Storage failures: load() returns an error when os.ReadFile or           *)
(* yaml.Unmarshal does; every repository method returns it wrapped and     *)
(* leaves the file alone.                                                  *)
(***************************************************************************)
\* mutant: the error of os.ReadFile / yaml.Unmarshal is dropped
loadFails_Never == FALSE

loadFails == disk # "ok"

\* what a mutating repository method returns when load() failed
StorageFailure == [err |-> "StorageError", file |-> file, wrote |-> 0]

(***************************************************************************)
(* bookmarkServiceImpl.CreateBookmark                                      *)
(***************************************************************************)
\* validation, then s.repo.Exists
CreateBookmark(p, req) ==
    /\ Begin(p, "CreateBookmark", req)
    /\ writes' = [writes EXCEPT ![p] = 0]
    /\ UNCHANGED <<file, existing>>
    /\ IF validateCreateRequest(req) # "nil"
       THEN /\ Return(p, validateCreateRequest(req), NoResp)
            /\ calls' = [calls EXCEPT ![p] = 0]
       ELSE /\ calls' = [calls EXCEPT ![p] = 1]
            /\ IF loadFails
               THEN Return(p, "StorageError", NoResp)
               ELSE IF Exists(file, req.Command)
                    THEN Return(p, "Conflict", NoResp)
                    ELSE Goto(p, "CreateBookmark_Create")

\* mutant: the duplicate reported by Create is returned as a storage failure
CreateBookmarkPersist_GenericError(p) ==
    /\ pc[p] = "CreateBookmark_Create"
    /\ LET req == op[p].req
           example == Bookmark(req.Command, req.ToolName, req.Description)
           r == IF loadFails THEN StorageFailure ELSE Create(file, example) IN
       /\ file' = r.file
       /\ writes' = [writes EXCEPT ![p] = @ + r.wrote]
       /\ IF r.err # "nil"
          THEN Return(p, "StorageError", NoResp)
          ELSE Return(p, "nil", modelToDTO(example))
    /\ calls' = [calls EXCEPT ![p] = @ + 1]
    /\ UNCHANGED <<op, existing, before, disk, mu, loaded>>

\* s.repo.Create(example), then the response
CreateBookmarkPersist(p) ==
    /\ pc[p] = "CreateBookmark_Create"
    /\ LET req == op[p].req
           example == Bookmark(req.Command, req.ToolName, req.Description)
           r == IF loadFails THEN StorageFailure ELSE Create(file, example) IN
       /\ file' = r.file
       /\ writes' = [writes EXCEPT ![p] = @ + r.wrote]
       /\ IF r.err # "nil"
          THEN Return(p, r.err, NoResp)
          ELSE Return(p, "nil", modelToDTO(example))
    /\ calls' = [calls EXCEPT ![p] = @ + 1]
    /\ UNCHANGED <<op, existing, before, disk, mu, loaded>>

(***************************************************************************)
(* bookmarkServiceImpl.GetBookmark, ListBookmarks                          *)
(***************************************************************************)
\* mutant: the repository's error is replaced by a validation error
GetBookmarkOn_LosesKind(f, command) ==
    LET r == GetByCommand(f, command) IN
    IF r.err # "nil"
    THEN [err |-> "ValidationError", resp |-> NoResp]
    ELSE [err |-> "nil", resp |-> modelToDTO(r.bookmark)]

\* what GetBookmark returns on document f
GetBookmarkOn(f, command) ==
    LET r == GetByCommand(f, command) IN
    IF r.err # "nil"
    THEN [err |-> r.err, resp |-> NoResp]
    ELSE [err |-> "nil", resp |-> modelToDTO(r.bookmark)]

GetBookmark(p, command) ==
    /\ Begin(p, "GetBookmark", [Command |-> command])
    /\ writes' = [writes EXCEPT ![p] = 0]
    /\ calls' = [calls EXCEPT ![p] = 1]
    /\ UNCHANGED <<file, existing>>
    /\ IF loadFails
       THEN Return(p, "StorageError", NoResp)
       ELSE Return(p, GetBookmarkOn(file, command).err,
                   GetBookmarkOn(file, command).resp)

\* what ListBookmarks returns on document f
ListBookmarksOn(f) ==
    LET examples == List(f)
        responses == [i \in 1..Len(examples) |-> modelToDTO(examples[i])] IN
    [Examples |-> responses, Count |-> Len(responses)]

ListBookmarks(p) ==
    /\ Begin(p, "ListBookmarks", NoBookmark)
    /\ writes' = [writes EXCEPT ![p] = 0]
    /\ calls' = [calls EXCEPT ![p] = 1]
    /\ UNCHANGED <<file, existing>>
    /\ IF loadFails
       THEN Return(p, "StorageError", NoResp)
       ELSE Return(p, "nil", ListBookmarksOn(file))

(***************************************************************************)
(* bookmarkServiceImpl.UpdateBookmark                                      *)
(***************************************************************************)
\* mutant: the new values are assigned without the test for ""
ApplyUpdate_AlwaysAssign(b, req) ==
    [Command |-> b.Command, ToolName |-> req.NewToolName,
     Description |-> req.NewDescription]

\* the fields UpdateBookmark overwrites on the copy GetByCommand returned
ApplyUpdate(b, req) ==
    [Command |-> b.Command,
     ToolName |-> IF req.NewToolName # <<>> THEN req.NewToolName ELSE b.ToolName,
     Description |-> IF req.NewDescription # <<>> THEN req.NewDescription
                     ELSE b.Description]

\* does the request take the primary-key-change branch?
IsRename(req) == req.NewCommand # <<>> /\ req.NewCommand # req.Command

\* s.repo.GetByCommand, then the field assignments on the copy
UpdateBookmark(p, req) ==
    /\ Begin(p, "UpdateBookmark", req)
    /\ writes' = [writes EXCEPT ![p] = 0]
    /\ calls' = [calls EXCEPT ![p] = 1]
    /\ UNCHANGED file
    /\ LET r == IF loadFails
                THEN [err |-> "StorageError", bookmark |-> NoBookmark]
                ELSE GetByCommand(file, req.Command) IN
       IF r.err # "nil"
       THEN /\ Return(p, r.err, NoResp)
            /\ UNCHANGED existing
       ELSE /\ existing' = [existing EXCEPT ![p] = ApplyUpdate(r.bookmark, req)]
            /\ IF IsRename(req)
               THEN Goto(p, "UpdateBookmark_Exists")
               ELSE Goto(p, "UpdateBookmark_Update")

\* mutant: the result of the existence check is ignored
UpdateBookmarkExists_NoCheck(p) ==
    /\ pc[p] = "UpdateBookmark_Exists"
    /\ Goto(p, "UpdateBookmark_Delete")
    /\ calls' = [calls EXCEPT ![p] = @ + 1]
    /\ UNCHANGED <<file, op, existing, writes, before, disk, mu, loaded>>

\* s.repo.Exists(req.NewCommand)
UpdateBookmarkExists(p) ==
    /\ pc[p] = "UpdateBookmark_Exists"
    /\ IF loadFails
       THEN Return(p, "StorageError", NoResp)
       ELSE IF Exists(file, op[p].req.NewCommand)
            THEN Return(p, "Conflict", NoResp)
            ELSE Goto(p, "UpdateBookmark_Delete")
    /\ calls' = [calls EXCEPT ![p] = @ + 1]
    /\ UNCHANGED <<file, op, existing, writes, before, disk, mu, loaded>>

\* mutant: existing.Command is not set to the new command
UpdateBookmarkDelete_KeepsCommand(p) ==
    /\ pc[p] = "UpdateBookmark_Delete"
    /\ LET r == IF loadFails THEN StorageFailure
                ELSE Delete(file, op[p].req.Command) IN
       /\ file' = r.file
       /\ writes' = [writes EXCEPT ![p] = @ + r.wrote]
       /\ IF r.err # "nil"
          THEN Return(p, r.err, NoResp)
          ELSE Goto(p, "UpdateBookmark_Create")
    /\ calls' = [calls EXCEPT ![p] = @ + 1]
    /\ UNCHANGED <<op, existing, before, disk, mu, loaded>>

\* s.repo.Delete(req.Command), then existing.Command = req.NewCommand
UpdateBookmarkDelete(p) ==
    /\ pc[p] = "UpdateBookmark_Delete"
    /\ LET r == IF loadFails THEN StorageFailure
                ELSE Delete(file, op[p].req.Command) IN
       /\ file' = r.file
       /\ writes' = [writes EXCEPT ![p] = @ + r.wrote]
       /\ IF r.err # "nil"
          THEN /\ Return(p, r.err, NoResp)
               /\ UNCHANGED existing
          ELSE /\ existing' = [existing EXCEPT ![p].Command = op[p].req.NewCommand]
               /\ Goto(p, "UpdateBookmark_Create")
    /\ calls' = [calls EXCEPT ![p] = @ + 1]
    /\ UNCHANGED <<op, before, disk, mu, loaded>>

\* mutant: when Create fails the document the call met is written back
UpdateBookmarkCreate_RestoresOld(p) ==
    /\ pc[p] = "UpdateBookmark_Create"
    /\ LET r == IF loadFails THEN StorageFailure
                ELSE Create(file, existing[p]) IN
       /\ file' = IF r.err # "nil" THEN before[p] ELSE r.file
       /\ writes' = [writes EXCEPT ![p] = @ + r.wrote]
       /\ IF r.err # "nil"
          THEN Return(p, r.err, NoResp)
          ELSE Return(p, "nil", modelToDTO(existing[p]))
    /\ calls' = [calls EXCEPT ![p] = @ + 1]
    /\ UNCHANGED <<op, existing, before, disk, mu, loaded>>

\* s.repo.Create(existing)
UpdateBookmarkCreate(p) ==
    /\ pc[p] = "UpdateBookmark_Create"
    /\ LET r == IF loadFails THEN StorageFailure
                ELSE Create(file, existing[p]) IN
       /\ file' = r.file
       /\ writes' = [writes EXCEPT ![p] = @ + r.wrote]
       /\ IF r.err # "nil"
          THEN Return(p, r.err, NoResp)
          ELSE Return(p, "nil", modelToDTO(existing[p]))
    /\ calls' = [calls EXCEPT ![p] = @ + 1]
    /\ UNCHANGED <<op, existing, before, disk, mu, loaded>>

\* s.repo.Update(existing)
UpdateBookmarkPersist(p) ==
    /\ pc[p] = "UpdateBookmark_Update"
    /\ LET r == IF loadFails THEN StorageFailure
                ELSE Update(file, existing[p]) IN
       /\ file' = r.file
       /\ writes' = [writes EXCEPT ![p] = @ + r.wrote]
       /\ IF r.err # "nil"
          THEN Return(p, r.err, NoResp)
          ELSE Return(p, "nil", modelToDTO(existing[p]))
    /\ calls' = [calls EXCEPT ![p] = @ + 1]
    /\ UNCHANGED <<op, existing, before, disk, mu, loaded>>

(***************************************************************************)
(* bookmarkServiceImpl.DeleteBookmark, DeleteToolBookmarks                 *)
(***************************************************************************)
DeleteBookmark(p, command) ==
    /\ Begin(p, "DeleteBookmark", [Command |-> command])
    /\ LET r == IF loadFails THEN StorageFailure
                ELSE Delete(file, command) IN
       /\ file' = r.file
       /\ writes' = [writes EXCEPT ![p] = r.wrote]
       /\ Return(p, r.err, NoResp)
    /\ calls' = [calls EXCEPT ![p] = 1]
    /\ UNCHANGED existing

DeleteToolBookmarks(p, toolName) ==
    /\ Begin(p, "DeleteToolBookmarks", [ToolName |-> toolName])
    /\ LET r == IF loadFails THEN StorageFailure
                ELSE DeleteByToolName(file, toolName) IN
       /\ file' = r.file
       /\ writes' = [writes EXCEPT ![p] = r.wrote]
       /\ Return(p, r.err, NoResp)
    /\ calls' = [calls EXCEPT ![p] = 1]
    /\ UNCHANGED existing

(***************************************************************************)
(* Direct callers of the repository (the repository's own tests)           *)
(***************************************************************************)
RepoCreate(p, example) ==
    /\ Begin(p, "Create", example)
    /\ LET r == IF loadFails THEN StorageFailure
                ELSE Create(file, example) IN
       /\ file' = r.file
       /\ writes' = [writes EXCEPT ![p] = r.wrote]
       /\ Return(p, r.err, NoResp)
    /\ calls' = [calls EXCEPT ![p] = 1]
    /\ UNCHANGED existing

RepoUpdate(p, example) ==
    /\ Begin(p, "Update", example)
    /\ LET r == IF loadFails THEN StorageFailure
                ELSE Update(file, example) IN
       /\ file' = r.file
       /\ writes' = [writes EXCEPT ![p] = r.wrote]
       /\ Return(p, r.err, NoResp)
    /\ calls' = [calls EXCEPT ![p] = 1]
    /\ UNCHANGED existing

RepoDelete(p, command) ==
    /\ Begin(p, "Delete", [Command |-> command])
    /\ LET r == IF loadFails THEN StorageFailure
                ELSE Delete(file, command) IN
       /\ file' = r.file
       /\ writes' = [writes EXCEPT ![p] = r.wrote]
       /\ Return(p, r.err, NoResp)
    /\ calls' = [calls EXCEPT ![p] = 1]
    /\ UNCHANGED existing

RepoDeleteByToolName(p, toolName) ==
    /\ Begin(p, "DeleteByToolName", [ToolName |-> toolName])
    /\ LET r == IF loadFails THEN StorageFailure
                ELSE DeleteByToolName(file, toolName) IN
       /\ file' = r.file
       /\ writes' = [writes EXCEPT ![p] = r.wrote]
       /\ Return(p, r.err, NoResp)
    /\ calls' = [calls EXCEPT ![p] = 1]
    /\ UNCHANGED existing

\* the repository's read methods, called directly
RepoGetByCommand(p, command) ==
    /\ Begin(p, "GetByCommand", [Command |-> command])
    /\ writes' = [writes EXCEPT ![p] = 0]
    /\ calls' = [calls EXCEPT ![p] = 1]
    /\ UNCHANGED <<file, existing>>
    /\ IF loadFails
       THEN Return(p, "StorageError", NoResp)
       ELSE Return(p, GetByCommand(file, command).err,
                   GetByCommand(file, command).bookmark)

\* mutant: List writes back the storage it loaded, last record first
RepoList_SavesReversed(p) ==
    /\ Begin(p, "List", NoBookmark)
    /\ writes' = [writes EXCEPT ![p] = 0]
    /\ calls' = [calls EXCEPT ![p] = 1]
    /\ file' = [i \in 1..Len(file) |-> file[Len(file) + 1 - i]]
    /\ UNCHANGED existing
    /\ Return(p, "nil", List(file))

RepoList(p) ==
    /\ Begin(p, "List", NoBookmark)
    /\ writes' = [writes EXCEPT ![p] = 0]
    /\ calls' = [calls EXCEPT ![p] = 1]
    /\ UNCHANGED <<file, existing>>
    /\ IF loadFails
       THEN Return(p, "StorageError", NoResp)
       ELSE Return(p, "nil", List(file))

RepoListByToolName(p, toolName) ==
    /\ Begin(p, "ListByToolName", [ToolName |-> toolName])
    /\ writes' = [writes EXCEPT ![p] = 0]
    /\ calls' = [calls EXCEPT ![p] = 1]
    /\ UNCHANGED <<file, existing>>
    /\ IF loadFails
       THEN Return(p, "StorageError", NoResp)
       ELSE Return(p, "nil", ListByToolName(file, toolName))

RepoExists(p, command) ==
    /\ Begin(p, "Exists", [Command |-> command])
    /\ writes' = [writes EXCEPT ![p] = 0]
    /\ calls' = [calls EXCEPT ![p] = 1]
    /\ UNCHANGED <<file, existing>>
    /\ IF loadFails
       THEN Return(p, "StorageError", FALSE)
       ELSE Return(p, "nil", Exists(file, command))

(***************************************************************************)
(* A repository method in two steps: Enter takes r.mu and loads the file,  *)
(* Leave runs the rest of the body on what was loaded, saves if the body   *)
(* does, and releases r.mu on return (the deferred Unlock/RUnlock).        *)
(* Other callers may run between the two steps.                            *)
(***************************************************************************)
\* the methods that take r.mu.Lock(); the others take r.mu.RLock()
Mutating == {"Create", "Update", "Delete", "DeleteByToolName"}

\* mutant: Lock is granted whoever holds the mutex
CanLock_Always == TRUE

\* sync.RWMutex: Lock is granted when no caller holds the mutex,
\* RLock when no caller holds Lock
CanLock == mu.writer = 0 /\ mu.readers = {}

\* mutant: RLock is granted while a caller holds Lock
CanRLock_Always == TRUE

CanRLock == mu.writer = 0

\* what the body of a mutating method makes of the storage it loaded
Mutate(name, f, req) ==
    CASE name = "Create" -> Create(f, req)
      [] name = "Update" -> Update(f, req)
      [] name = "Delete" -> Delete(f, req.Command)
      [] name = "DeleteByToolName" -> DeleteByToolName(f, req.ToolName)

\* what a read method returns on the storage it loaded
Read(name, f, req) ==
    CASE name = "GetByCommand" ->
             [err |-> GetByCommand(f, req.Command).err,
              value |-> GetByCommand(f, req.Command).bookmark]
      [] name = "List" -> [err |-> "nil", value |-> List(f)]
      [] name = "ListByToolName" ->
             [err |-> "nil", value |-> ListByToolName(f, req.ToolName)]
      [] name = "Exists" -> [err |-> "nil", value |-> Exists(f, req.Command)]

\* r.mu.Lock() or r.mu.RLock(), then r.load()
Enter(p, name, req) ==
    /\ pc[p] = "idle"
    /\ Len(file) <= MaxRecords
    /\ IF name \in Mutating
       THEN CanLock /\ mu' = [mu EXCEPT !.writer = p]
       ELSE CanRLock /\ mu' = [mu EXCEPT !.readers = @ \cup {p}]
    /\ loaded' = [loaded EXCEPT ![p] = file]
    /\ op' = [op EXCEPT ![p] = [name |-> name, req |-> req]]
    /\ before' = [before EXCEPT ![p] = file]
    /\ writes' = [writes EXCEPT ![p] = 0]
    /\ calls' = [calls EXCEPT ![p] = 1]
    /\ Goto(p, "locked")
    /\ UNCHANGED <<file, existing, disk>>

\* the same call made through a repository instance of the caller's own
\* (another NewYAMLBookmarkRepository on the path): that instance's r.mu is a
\* mutex no other caller takes, so Lock/RLock is granted at once and `mu`,
\* the mutex of the shared instance, is not involved
EnterOwn(p, name, req) ==
    /\ pc[p] = "idle"
    /\ Len(file) <= MaxRecords
    /\ loaded' = [loaded EXCEPT ![p] = file]
    /\ op' = [op EXCEPT ![p] = [name |-> name, req |-> req]]
    /\ before' = [before EXCEPT ![p] = file]
    /\ writes' = [writes EXCEPT ![p] = 0]
    /\ calls' = [calls EXCEPT ![p] = 1]
    /\ Goto(p, "locked")
    /\ UNCHANGED <<file, existing, disk, mu>>

\* mutant: the body runs on the file as it is at the save, not on what was loaded
Leave_Reloads(p) ==
    /\ pc[p] = "locked"
    /\ IF op[p].name \in Mutating
       THEN LET r == Mutate(op[p].name, file, op[p].req) IN
            /\ file' = IF r.wrote = 1 THEN r.file ELSE file
            /\ writes' = [writes EXCEPT ![p] = r.wrote]
            /\ mu' = [mu EXCEPT !.writer = 0]
            /\ Return(p, r.err, NoResp)
       ELSE LET r == Read(op[p].name, file, op[p].req) IN
            /\ UNCHANGED <<file, writes>>
            /\ mu' = [mu EXCEPT !.readers = @ \ {p}]
            /\ Return(p, r.err, r.value)
    /\ UNCHANGED <<op, existing, before, calls, disk, loaded>>

\* mutant: a mutating method returns without having saved
Leave_NoSave(p) ==
    /\ pc[p] = "locked"
    /\ IF op[p].name \in Mutating
       THEN LET r == Mutate(op[p].name, loaded[p], op[p].req) IN
            /\ UNCHANGED file
            /\ writes' = [writes EXCEPT ![p] = r.wrote]
            /\ mu' = [mu EXCEPT !.writer = 0]
            /\ Return(p, r.err, NoResp)
       ELSE LET r == Read(op[p].name, loaded[p], op[p].req) IN
            /\ UNCHANGED <<file, writes>>
            /\ mu' = [mu EXCEPT !.readers = @ \ {p}]
            /\ Return(p, r.err, r.value)
    /\ UNCHANGED <<op, existing, before, calls, disk, loaded>>

\* the body after load(), save() where the body saves, the deferred unlock
Leave(p) ==
    /\ pc[p] = "locked"
    /\ IF op[p].name \in Mutating
       THEN LET r == IF loadFails
                     THEN [err |-> "StorageError", file |-> file, wrote |-> 0]
                     ELSE Mutate(op[p].name, loaded[p], op[p].req) IN
            /\ file' = IF r.wrote = 1 THEN r.file ELSE file
            /\ writes' = [writes EXCEPT ![p] = r.wrote]
            /\ mu' = [mu EXCEPT !.writer = 0]
            /\ Return(p, r.err, NoResp)
       ELSE LET r == IF loadFails
                     THEN [err |-> "StorageError", value |-> NoResp]
                     ELSE Read(op[p].name, loaded[p], op[p].req) IN
            /\ UNCHANGED <<file, writes>>
            /\ mu' = [mu EXCEPT !.readers = @ \ {p}]
            /\ Return(p, r.err, r.value)
    /\ UNCHANGED <<op, existing, before, calls, disk, loaded>>

(***************************************************************************)
(* save() in two steps.  os.WriteFile opens the file with O_TRUNC, which   *)
(* leaves it with no bytes, and then writes the marshalled document; the   *)
(* process may stop in between or part way through the write.  A file of   *)
(* no bytes is one yaml.Unmarshal reads as a storage without bookmarks.    *)
(***************************************************************************)
\* the body of the method caller p is in reaches save()
ReachesSave(p) ==
    /\ op[p].name \in Mutating
    /\ ~loadFails
    /\ Mutate(op[p].name, loaded[p], op[p].req).wrote = 1

\* a method that returns without calling save()
LeaveWithoutSave(p) ==
    /\ pc[p] = "locked"
    /\ ~ReachesSave(p)
    /\ Leave(p)

\* os.WriteFile: OpenFile(name, O_WRONLY|O_CREATE|O_TRUNC, perm)
SaveTruncate(p) ==
    /\ pc[p] = "locked"
    /\ ReachesSave(p)
    /\ file' = <<>>
    /\ Goto(p, "saving")
    /\ UNCHANGED <<op, existing, before, writes, calls, disk, mu, loaded>>

\* os.WriteFile: f.Write(data), f.Close(); save and the method return
SaveWrite(p) ==
    /\ pc[p] = "saving"
    /\ LET r == Mutate(op[p].name, loaded[p], op[p].req) IN
       /\ file' = r.file
       /\ writes' = [writes EXCEPT ![p] = r.wrote]
       /\ mu' = [mu EXCEPT !.writer = 0]
       /\ Return(p, r.err, NoResp)
    /\ UNCHANGED <<op, existing, before, calls, disk, loaded>>

\* the process stops while some caller is inside a method.  If a write is
\* under way the file keeps the records written in full so far, or ends
\* inside a record and no longer parses.
Stop ==
    /\ \E p \in Procs : pc[p] \in {"locked", "saving"}
    /\ pc' = [p \in Procs |->
                IF pc[p] \in {"locked", "saving"} THEN "stopped" ELSE "halted"]
    /\ IF \E p \in Procs : pc[p] = "saving"
       THEN LET w == CHOOSE p \in Procs : pc[p] = "saving"
                data == Mutate(op[w].name, loaded[w], op[w].req).file IN
            \/ \E n \in 0..Len(data) :
                  file' = SubSeq(data, 1, n) /\ disk' = disk
            \/ file' = file /\ disk' = "unreadable"
       ELSE UNCHANGED <<file, disk>>
    /\ UNCHANGED <<op, existing, ret, resp, writes, before, calls, mu, loaded>>

(***************************************************************************)
(* NewYAMLBookmarkRepository: a handle is constructed on the path.  d is   *)
(* what os.Stat meets there, f the document the file holds.                *)
(***************************************************************************)
\* mutant: the empty document is saved whether or not the file exists
NewYAMLBookmarkRepositoryOn_AlwaysSaves(d, f) ==
    [disk |-> "ok", file |-> save(<<>>), wrote |-> 1]

\* mutant: the file that does not exist is not initialised
NewYAMLBookmarkRepositoryOn_NeverSaves(d, f) ==
    [disk |-> d, file |-> f, wrote |-> 0]

NewYAMLBookmarkRepositoryOn(d, f) ==
    IF d = "absent"
    THEN [disk |-> "ok", file |-> save(<<>>), wrote |-> 1]
    ELSE [disk |-> d, file |-> f, wrote |-> 0]

NewYAMLBookmarkRepository(p) ==
    /\ pc[p] = "idle"
    /\ op' = [op EXCEPT ![p] = [name |-> "NewYAMLBookmarkRepository",
                                req |-> [Existed |-> disk # "absent"]]]
    /\ before' = [before EXCEPT ![p] = file]
    /\ LET r == NewYAMLBookmarkRepositoryOn(disk, file) IN
       /\ disk' = r.disk
       /\ file' = r.file
       /\ writes' = [writes EXCEPT ![p] = r.wrote]
    /\ calls' = [calls EXCEPT ![p] = 0]
    /\ Return(p, "nil", NoResp)
    /\ UNCHANGED <<existing, mu, loaded>>

(***************************************************************************)
(* The file system under the repository: the file stops being readable     *)
(* (permissions, damaged content) and becomes readable again.              *)
(***************************************************************************)
FileBecomesUnreadable ==
    /\ disk = "ok"
    /\ disk' = "unreadable"
    /\ UNCHANGED <<file, pc, op, existing, ret, resp, writes, before, calls, mu, loaded>>

FileBecomesReadable ==
    /\ disk = "unreadable"
    /\ disk' = "ok"
    /\ UNCHANGED <<file, pc, op, existing, ret, resp, writes, before, calls, mu, loaded>>

(***************************************************************************)
(* The caller has looked at what its call returned and drops it; it may    *)
(* then start its next call.                                               *)
(***************************************************************************)
Forget(p) ==
    /\ pc[p] = "done"
    /\ pc' = [pc EXCEPT ![p] = "idle"]
    /\ op' = [op EXCEPT ![p] = NoOp]
    /\ existing' = [existing EXCEPT ![p] = NoBookmark]
    /\ ret' = [ret EXCEPT ![p] = "nil"]
    /\ resp' = [resp EXCEPT ![p] = NoResp]
    /\ writes' = [writes EXCEPT ![p] = 0]
    /\ before' = [before EXCEPT ![p] = save(<<>>)]
    /\ calls' = [calls EXCEPT ![p] = 0]
    /\ loaded' = [loaded EXCEPT ![p] = save(<<>>)]
    /\ UNCHANGED <<file, disk, mu>>

(***************************************************************************)
(* Inputs                                                                  *)
(***************************************************************************)
BookmarksOver(cmds, tools, descs) ==
    {Bookmark(c, t, d) : c \in cmds, t \in tools, d \in descs}

\* dto.CreateBookmarkRequest
CreateRequestsOver(cmds, tools, descs) ==
    [Command : cmds, ToolName : tools, Description : descs]

\* dto.UpdateBookmarkRequest
UpdateRequestsOver(cmds, tools, descs, newCmds) ==
    [Command : cmds, NewToolName : tools, NewDescription : descs, NewCommand : newCmds]

(***************************************************************************)
(* The calls of caller p, with requests drawn from the given sets          *)
(***************************************************************************)
ServiceStep(p, creqs, ureqs, cmds, tools) ==
    \/ \E req \in creqs : CreateBookmark(p, req)
    \/ CreateBookmarkPersist(p)
    \/ \E command \in cmds : GetBookmark(p, command)
    \/ ListBookmarks(p)
    \/ \E req \in ureqs : UpdateBookmark(p, req)
    \/ UpdateBookmarkExists(p)
    \/ UpdateBookmarkDelete(p)
    \/ UpdateBookmarkCreate(p)
    \/ UpdateBookmarkPersist(p)
    \/ \E command \in cmds : DeleteBookmark(p, command)
    \/ \E toolName \in tools : DeleteToolBookmarks(p, toolName)
    \/ Forget(p)

RepoStep(p, bms, cmds, tools) ==
    \/ \E example \in bms : RepoCreate(p, example)
    \/ \E example \in bms : RepoUpdate(p, example)
    \/ \E command \in cmds : RepoDelete(p, command)
    \/ \E toolName \in tools : RepoDeleteByToolName(p, toolName)

RepoReadStep(p, cmds, tools) ==
    \/ \E command \in cmds : RepoGetByCommand(p, command)
    \/ RepoList(p)
    \/ \E toolName \in tools : RepoListByToolName(p, toolName)
    \/ \E command \in cmds : RepoExists(p, command)

(***************************************************************************)
(* Spec: one caller at a time (no call starts before the previous one      *)
(* returned), driving the Service and the repository.  CreateBookmark is   *)
(* offered blank fields; UpdateBookmark's optional fields are absent or    *)
(* well-formed.                                                            *)
(***************************************************************************)
Next ==
    \/ ServiceStep(1,
          CreateRequestsOver(Commands \cup Blanks, ToolNames \cup Blanks,
                             Descriptions \cup Blanks),
          UpdateRequestsOver(Commands, ToolNames \cup {<<>>},
                             Descriptions \cup {<<>>}, Commands \cup {<<>>}),
          Commands, ToolNames)
    \/ RepoStep(1, BookmarksOver(Commands, ToolNames, Descriptions),
                Commands, ToolNames)
    \/ RepoReadStep(1, Commands, ToolNames)

Spec == Init /\ [][Next]_vars

(***************************************************************************)
(* SvcSpec: one caller at a time, driving the store through the Service    *)
(* only; UpdateBookmark is also offered whitespace-only new values.        *)
(***************************************************************************)
SvcCommands == {<<"a">>, <<"b">>}
SvcDescriptions == {<<"x">>}
SvcBlanks == {<<>>, <<" ">>}

SvcNext ==
    ServiceStep(1,
        CreateRequestsOver(SvcCommands \cup SvcBlanks, ToolNames \cup SvcBlanks,
                           SvcDescriptions \cup SvcBlanks),
        UpdateRequestsOver(SvcCommands \cup {<<" ">>}, ToolNames \cup SvcBlanks,
                           SvcDescriptions \cup SvcBlanks,
                           SvcCommands \cup SvcBlanks),
        SvcCommands \cup {<<" ">>}, ToolNames \cup {<<" ">>})

SvcSpec == Init /\ [][SvcNext]_vars

(***************************************************************************)
(* ConcSpec: the callers of one process run concurrently on one            *)
(* repository instance; any caller may take the next step.                 *)
(***************************************************************************)
ConcCommands == {<<"a">>, <<"b">>}
ConcDescriptions == {<<"x">>}

ConcNext ==
    \E p \in Procs :
        \/ ServiceStep(p,
              CreateRequestsOver(ConcCommands, ToolNames, ConcDescriptions),
              UpdateRequestsOver(ConcCommands, {<<"d">>, <<>>},
                                 {<<>>}, ConcCommands \cup {<<>>}),
              ConcCommands, ToolNames)
        \/ RepoStep(p, BookmarksOver(ConcCommands, ToolNames, ConcDescriptions),
                    ConcCommands, ToolNames)

ConcSpec == Init /\ [][ConcNext]_vars

(***************************************************************************)
(* OpenSpec: the path holds no file at first.  One caller constructs       *)
(* handles on it, the first of which initialises the file, and drives the  *)
(* store through the handle it holds; it may construct a new handle on the *)
(* same path between two calls.                                            *)
(***************************************************************************)
OpenCommands == {<<"a">>, <<"b">>}
OpenDescriptions == {<<"x">>}

OpenInit ==
    /\ file = <<>>
    /\ pc = [p \in Procs |-> "idle"]
    /\ op = [p \in Procs |-> NoOp]
    /\ existing = [p \in Procs |-> NoBookmark]
    /\ ret = [p \in Procs |-> "nil"]
    /\ resp = [p \in Procs |-> NoResp]
    /\ writes = [p \in Procs |-> 0]
    /\ before = [p \in Procs |-> save(<<>>)]
    /\ calls = [p \in Procs |-> 0]
    /\ disk = "absent"
    /\ mu = Unlocked
    /\ loaded = [p \in Procs |-> save(<<>>)]

OpenNext ==
    \/ NewYAMLBookmarkRepository(1)
    \/ /\ disk # "absent"
       /\ \/ ServiceStep(1,
                 CreateRequestsOver(OpenCommands, ToolNames, OpenDescriptions),
                 UpdateRequestsOver(OpenCommands, ToolNames \cup {<<>>},
                                    {<<>>}, OpenCommands \cup {<<>>}),
                 OpenCommands, ToolNames)
          \/ RepoStep(1, BookmarksOver(OpenCommands, ToolNames, OpenDescriptions),
                      OpenCommands, ToolNames)
          \/ RepoReadStep(1, OpenCommands, ToolNames)

OpenSpec == OpenInit /\ [][OpenNext]_vars

(***************************************************************************)
(* PadSpec: one caller at a time, driving the store through the Service    *)
(* with fields that carry surrounding whitespace.                          *)
(***************************************************************************)
PadCommands == {<<"a">>, <<" ", "a", " ">>}
PadToolNames == {<<"k">>, <<"k", " ">>}
PadDescriptions == {<<"x">>, <<" ", "x">>}

PadNext ==
    ServiceStep(1,
        CreateRequestsOver(PadCommands, PadToolNames, PadDescriptions),
        UpdateRequestsOver(PadCommands, {<<>>}, {<<>>}, PadCommands \cup {<<>>}),
        PadCommands, PadToolNames)

PadSpec == Init /\ [][PadNext]_vars

(***************************************************************************)
(* CreateRaceSpec: the store holds at most one record; each caller makes   *)
(* one CreateBookmark call, and the two calls run concurrently on one      *)
(* repository instance.                                                    *)
(***************************************************************************)
RaceDescriptions == {<<"x">>, <<"y">>}

RaceDocuments ==
    {save(<<>>)} \cup
    {save(<<b>>) : b \in BookmarksOver(ConcCommands, {<<"k">>}, {<<"x">>})}

CreateRaceInit ==
    /\ file \in RaceDocuments
    /\ pc = [p \in Procs |-> "idle"]
    /\ op = [p \in Procs |-> NoOp]
    /\ existing = [p \in Procs |-> NoBookmark]
    /\ ret = [p \in Procs |-> "nil"]
    /\ resp = [p \in Procs |-> NoResp]
    /\ writes = [p \in Procs |-> 0]
    /\ before = [p \in Procs |-> save(<<>>)]
    /\ calls = [p \in Procs |-> 0]
    /\ disk = "ok"
    /\ mu = Unlocked
    /\ loaded = [p \in Procs |-> save(<<>>)]

CreateRaceNext ==
    \E p \in Procs :
        \/ \E req \in CreateRequestsOver(ConcCommands, ToolNames, RaceDescriptions) :
               CreateBookmark(p, req)
        \/ CreateBookmarkPersist(p)

CreateRaceSpec == CreateRaceInit /\ [][CreateRaceNext]_vars

(***************************************************************************)
(* LockSpec: the store holds up to two records; each caller makes one      *)
(* call of a repository method, and the calls run concurrently on one      *)
(* repository instance, interleaved between taking r.mu and returning.     *)
(***************************************************************************)
LockCommands == {<<"a">>, <<"b">>}

LockDocuments ==
    LET bms == BookmarksOver(Commands, {<<"k">>}, {<<"x">>}) IN
    {save(<<>>)} \cup {save(<<b>>) : b \in bms} \cup
    {save(<<q[1], q[2]>>) : q \in {q \in bms \X bms : q[1].Command # q[2].Command}}

LockInit ==
    /\ file \in LockDocuments
    /\ pc = [p \in Procs |-> "idle"]
    /\ op = [p \in Procs |-> NoOp]
    /\ existing = [p \in Procs |-> NoBookmark]
    /\ ret = [p \in Procs |-> "nil"]
    /\ resp = [p \in Procs |-> NoResp]
    /\ writes = [p \in Procs |-> 0]
    /\ before = [p \in Procs |-> save(<<>>)]
    /\ calls = [p \in Procs |-> 0]
    /\ disk = "ok"
    /\ mu = Unlocked
    /\ loaded = [p \in Procs |-> save(<<>>)]

LockNext ==
    \E p \in Procs :
        \/ \E example \in BookmarksOver(LockCommands, ToolNames, {<<"x">>}) :
               Enter(p, "Create", example) \/ Enter(p, "Update", example)
        \/ \E command \in LockCommands :
               \/ Enter(p, "Delete", [Command |-> command])
               \/ Enter(p, "GetByCommand", [Command |-> command])
               \/ Enter(p, "Exists", [Command |-> command])
        \/ \E toolName \in ToolNames :
               \/ Enter(p, "DeleteByToolName", [ToolName |-> toolName])
               \/ Enter(p, "ListByToolName", [ToolName |-> toolName])
        \/ Enter(p, "List", NoBookmark)
        \/ Leave(p)

LockSpec == LockInit /\ [][LockNext]_vars

(***************************************************************************)
(* FaultSpec: caller 1 drives the store through the Service, one call      *)
(* after another, while the file may stop being readable at any moment;    *)
(* caller 2 makes at most one CreateBookmark call, concurrently.           *)
(***************************************************************************)
FaultCommands == {<<"a">>, <<"b">>}

FaultNext ==
    \/ ServiceStep(1,
          CreateRequestsOver(FaultCommands, {<<"k">>}, {<<"x">>}),
          UpdateRequestsOver(FaultCommands, {<<"d">>, <<>>}, {<<>>},
                             FaultCommands \cup {<<>>}),
          FaultCommands, ToolNames)
    \/ FileBecomesUnreadable
    \/ FileBecomesReadable
    \/ \E req \in CreateRequestsOver(FaultCommands, {<<"d">>}, {<<"y">>}) :
           CreateBookmark(2, req)
    \/ CreateBookmarkPersist(2)

FaultSpec == Init /\ [][FaultNext]_vars

(***************************************************************************)
(* UpdateRaceSpec: the store holds at most one record; each caller makes   *)
(* one UpdateBookmark call that keeps the command, and the two calls run   *)
(* concurrently on one repository instance.                                *)
(***************************************************************************)
UpdateRaceNext ==
    \E p \in Procs :
        \/ \E req \in UpdateRequestsOver(ConcCommands, {<<"d">>, <<>>},
                                         {<<"y">>, <<>>}, {<<>>}) :
               UpdateBookmark(p, req)
        \/ UpdateBookmarkPersist(p)

UpdateRaceSpec == CreateRaceInit /\ [][UpdateRaceNext]_vars

(***************************************************************************)
(* UnreadableSpec: one caller at a time, driving the Service and the       *)
(* repository, while the file may stop being readable at any moment.       *)
(***************************************************************************)
UnreadableNext ==
    \/ ServiceStep(1,
          CreateRequestsOver(FaultCommands, {<<"k">>}, {<<"x">>}),
          UpdateRequestsOver(FaultCommands, {<<"d">>, <<>>}, {<<>>},
                             FaultCommands \cup {<<>>}),
          FaultCommands, ToolNames)
    \/ RepoStep(1, BookmarksOver(FaultCommands, ToolNames, {<<"x">>}),
                FaultCommands, ToolNames)
    \/ RepoReadStep(1, FaultCommands, ToolNames)
    \/ FileBecomesUnreadable
    \/ FileBecomesReadable

UnreadableSpec == Init /\ [][UnreadableNext]_vars

(***************************************************************************)
(* CrossCreateSpec: each caller has a repository instance of its own on    *)
(* the one file, which holds up to two records, and makes one Create call  *)
(* through it.                                                             *)
(***************************************************************************)
CrossCreateNext ==
    \E p \in Procs :
        \/ \E example \in BookmarksOver(LockCommands, ToolNames, {<<"x">>}) :
               EnterOwn(p, "Create", example)
        \/ Leave(p)

CrossCreateSpec == LockInit /\ [][CrossCreateNext]_vars

(***************************************************************************)
(* CrossSpec: each caller has a repository instance of its own on the one  *)
(* file, which starts as the empty document, and makes call after call of  *)
(* the mutating methods through it.  Each load and each save is one step.  *)
(***************************************************************************)
CrossNext ==
    \E p \in Procs :
        \/ \E example \in BookmarksOver(LockCommands, ToolNames, {<<"x">>}) :
               EnterOwn(p, "Create", example) \/ EnterOwn(p, "Update", example)
        \/ \E command \in LockCommands :
               EnterOwn(p, "Delete", [Command |-> command])
        \/ \E toolName \in ToolNames :
               EnterOwn(p, "DeleteByToolName", [ToolName |-> toolName])
        \/ Leave(p)
        \/ Forget(p)

CrossSpec == Init /\ [][CrossNext]_vars

(***************************************************************************)
(* CrashSpec: the store holds up to two records; each caller makes one     *)
(* call of a mutating repository method on one repository instance, and    *)
(* the process may stop at any point while a caller is inside a method.    *)
(***************************************************************************)
CrashNext ==
    \/ \E p \in Procs :
        \/ \E example \in BookmarksOver(LockCommands, ToolNames, {<<"x">>}) :
               Enter(p, "Create", example) \/ Enter(p, "Update", example)
        \/ \E command \in LockCommands :
               Enter(p, "Delete", [Command |-> command])
        \/ \E toolName \in ToolNames :
               Enter(p, "DeleteByToolName", [ToolName |-> toolName])
        \/ LeaveWithoutSave(p)
        \/ SaveTruncate(p)
        \/ SaveWrite(p)
    \/ Stop

CrashSpec == LockInit /\ [][CrashNext]_vars

(***************************************************************************)
(* Vocabulary of the properties                                            *)
(***************************************************************************)
\* caller p's call of method `name` has returned
Done(p, name) == pc[p] = "done" /\ op[p].name = name

\* the callers inside the load-mutate-save section of a mutating method
InWriteSection == {p \in Procs : pc[p] = "locked" /\ op[p].name \in Mutating}

\* the callers between RLock and RUnlock of a read method
InReadSection == {p \in Procs : pc[p] = "locked" /\ op[p].name \notin Mutating}

\* the string is empty after trimming surrounding whitespace
IsBlank(s) == TrimSpace(s) = <<>>

\* positions of document f whose record has the given command
PositionsOf(f, command) == {i \in 1..Len(f) : f[i].command = command}

\* the request of a CreateBookmark call has a field that is "" or only
\* whitespace
HasBlankField(req) ==
    req.Command \in Blanks \/ req.ToolName \in Blanks \/ req.Description \in Blanks

(***************************************************************************)
(* C1  Uniqueness: under any interleaving of the callers of one process,   *)
(* through Service and repository operations alike, the stored document    *)
(* never holds two records with the same command.                          *)
(***************************************************************************)
C1_Uniqueness ==
    \A i, j \in 1..Len(file) : i # j => file[i].command # file[j].command

\* a rename has gone through while the other caller was inside a call of
\* its own, and two records are stored
C1_Witness ==
    /\ Len(file) = 2
    /\ Done(1, "UpdateBookmark") /\ ret[1] = "nil" /\ IsRename(op[1].req)
    /\ pc[2] \notin {"idle", "done"}

(***************************************************************************)
(* C2  Non-empty fields: driving the store through the Service only,       *)
(* every stored record has command, tool name and description that are     *)
(* non-empty after trimming surrounding whitespace.                        *)
(***************************************************************************)
C2_NonEmptyFields ==
    \A i \in 1..Len(file) :
        /\ ~IsBlank(file[i].command)
        /\ ~IsBlank(file[i].toolname)
        /\ ~IsBlank(file[i].description)

(***************************************************************************)
(* C3  Validation rejects blanks: a CreateBookmark whose command, tool     *)
(* name or description is empty or whitespace-only returns a               *)
(* ValidationError, has called save() zero times, and the document is the  *)
(* one the call met.                                                       *)
(***************************************************************************)
C3_ValidationRejectsBlanks ==
    (Done(1, "CreateBookmark") /\ HasBlankField(op[1].req))
        => /\ ret[1] = "ValidationError"
           /\ writes[1] = 0
           /\ file = before[1]

\* a description of three spaces, the other fields well-formed, on a
\* non-empty store
C3_Witness ==
    /\ Done(1, "CreateBookmark")
    /\ op[1].req.Description = <<" ", " ", " ">>
    /\ op[1].req.Command \notin Blanks /\ op[1].req.ToolName \notin Blanks
    /\ ret[1] = "ValidationError"
    /\ Len(file) >= 1

(***************************************************************************)
(* C4  Duplicate rejected, as claimed: with a record of command X stored,  *)
(* CreateBookmark and the repository's Create with command X fail with     *)
(* Conflict/AlreadyExists whatever the tool name and description are, and  *)
(* the document is left as it was.                                         *)
(***************************************************************************)
C4_DuplicateRejectedForAnyFields ==
    \A name \in {"CreateBookmark", "Create"} :
        (Done(1, name) /\ PositionsOf(before[1], op[1].req.Command) # {})
            => /\ ret[1] \in {"Conflict", "AlreadyExists"}
               /\ file = before[1]

(***************************************************************************)
(* C4  Duplicate rejected, amended: with a record of command X stored, the *)
(* repository's Create with command X fails with AlreadyExists for any     *)
(* tool name and description, and CreateBookmark with command X fails with *)
(* Conflict when its tool name and description are non-blank and with a    *)
(* ValidationError when one of them is blank; in every case no save() is   *)
(* made, exactly one record with command X is stored afterwards, at the    *)
(* same position and with the tool name and description it had.            *)
(***************************************************************************)
C4_DuplicateRejected ==
    \A name \in {"CreateBookmark", "Create"} :
        (Done(1, name) /\ PositionsOf(before[1], op[1].req.Command) # {})
            => /\ name = "Create" => ret[1] = "AlreadyExists"
               /\ (name = "CreateBookmark" /\ ~HasBlankField(op[1].req))
                      => ret[1] = "Conflict"
               /\ (name = "CreateBookmark" /\ HasBlankField(op[1].req))
                      => ret[1] = "ValidationError"
               /\ writes[1] = 0
               /\ Cardinality(PositionsOf(file, op[1].req.Command)) = 1
               /\ Len(file) = Len(before[1])
               /\ \A i \in 1..Len(file) : file[i] = before[1][i]

\* the second create carries another tool name and description than the
\* stored record, which is not the last of the document
C4_Witness ==
    /\ Done(1, "CreateBookmark")
    /\ ret[1] = "Conflict"
    /\ Len(before[1]) >= 2
    /\ before[1][1].command = op[1].req.Command
    /\ before[1][1].toolname # op[1].req.ToolName
    /\ before[1][1].description # op[1].req.Description

(***************************************************************************)
(* C5  Round-trip: after a successful Create(b) of a command not stored    *)
(* before, GetByCommand(b.Command) on the resulting document returns a     *)
(* record equal to b in all three fields; after a successful               *)
(* CreateBookmark(req), GetBookmark(req.Command) returns the three fields  *)
(* of the request.                                                         *)
(***************************************************************************)
C5_RoundTrip ==
    /\ (Done(1, "Create") /\ ret[1] = "nil")
          => LET got == GetByCommand(file, op[1].req.Command) IN
             /\ got.err = "nil"
             /\ got.bookmark.Command = op[1].req.Command
             /\ got.bookmark.ToolName = op[1].req.ToolName
             /\ got.bookmark.Description = op[1].req.Description
    /\ (Done(1, "CreateBookmark") /\ ret[1] = "nil")
          => LET got == GetBookmarkOn(file, op[1].req.Command) IN
             /\ got.err = "nil"
             /\ got.resp.Command = op[1].req.Command
             /\ got.resp.ToolName = op[1].req.ToolName
             /\ got.resp.Description = op[1].req.Description

\* a record created behind two others whose tool name and description differ
C5_Witness ==
    /\ Done(1, "Create") /\ ret[1] = "nil"
    /\ Len(file) = 3
    /\ file[1].toolname # op[1].req.ToolName
    /\ file[2].description # op[1].req.Description

(***************************************************************************)
(* C6  Partial update preserves untouched fields: a successful             *)
(* UpdateBookmark whose newCommand is empty or equal to command sets the   *)
(* tool name and the description for which a non-empty new value came,     *)
(* keeps the other attribute and the command, and leaves every other       *)
(* record, and every position, of the document as it was.                  *)
(***************************************************************************)
C6_PartialUpdatePreserves ==
    (Done(1, "UpdateBookmark") /\ ret[1] = "nil"
        /\ op[1].req.NewCommand \in {<<>>, op[1].req.Command})
        => /\ Len(file) = Len(before[1])
           /\ \A i \in 1..Len(file) :
                IF before[1][i].command # op[1].req.Command
                THEN file[i] = before[1][i]
                ELSE /\ file[i].command = before[1][i].command
                     /\ file[i].toolname =
                           IF op[1].req.NewToolName = <<>>
                           THEN before[1][i].toolname ELSE op[1].req.NewToolName
                     /\ file[i].description =
                           IF op[1].req.NewDescription = <<>>
                           THEN before[1][i].description ELSE op[1].req.NewDescription

\* only a new description came; it differs from the stored one, and another
\* record stands behind the updated one
C6_Witness ==
    /\ Done(1, "UpdateBookmark") /\ ret[1] = "nil"
    /\ op[1].req.NewCommand = <<>>
    /\ op[1].req.NewToolName = <<>>
    /\ op[1].req.NewDescription # <<>>
    /\ Len(file) >= 2
    /\ before[1][1].command = op[1].req.Command
    /\ before[1][1].description # op[1].req.NewDescription
    /\ file[1].toolname = before[1][1].toolname

(***************************************************************************)
(* C7  Rename moves the key: after a successful UpdateBookmark from c1 to  *)
(* another command c2, GetBookmark(c1) fails NotFound, GetBookmark(c2)     *)
(* returns the new tool name/description where a non-empty one came and    *)
(* c1's old value where none came, as many records are stored as before,   *)
(* and the records other than c1's are the same as before.                 *)
(***************************************************************************)
C7_RenameMovesKey ==
    (Done(1, "UpdateBookmark") /\ ret[1] = "nil" /\ op[1].req.NewCommand # <<>>
        /\ op[1].req.NewCommand # op[1].req.Command)
        => LET req == op[1].req
               old == GetByCommand(before[1], req.Command).bookmark
               got == GetBookmarkOn(file, req.NewCommand) IN
           /\ GetBookmarkOn(file, req.Command).err = "NotFound"
           /\ got.err = "nil"
           /\ got.resp.Command = req.NewCommand
           /\ got.resp.ToolName =
                 IF req.NewToolName = <<>> THEN old.ToolName ELSE req.NewToolName
           /\ got.resp.Description =
                 IF req.NewDescription = <<>> THEN old.Description
                 ELSE req.NewDescription
           /\ Len(file) = Len(before[1])
           /\ SelectSeq(file, LAMBDA m : m.command # req.NewCommand)
                 = SelectSeq(before[1], LAMBDA m : m.command # req.Command)

\* the renamed record was the first of two, and only a new tool name came
\* with the new command
C7_Witness ==
    /\ Done(1, "UpdateBookmark") /\ ret[1] = "nil"
    /\ IsRename(op[1].req)
    /\ op[1].req.NewToolName # <<>> /\ op[1].req.NewDescription = <<>>
    /\ Len(before[1]) = 2
    /\ before[1][1].command = op[1].req.Command
    /\ before[1][1].toolname # op[1].req.NewToolName

(***************************************************************************)
(* C8  Rename conflict: UpdateBookmark on a stored command c1 with         *)
(* newCommand equal to another stored command fails with Conflict, makes   *)
(* no save(), and leaves the document, order included, as it was, also     *)
(* when the request carries a new tool name or description.                *)
(***************************************************************************)
C8_RenameConflict ==
    (Done(1, "UpdateBookmark")
        /\ op[1].req.NewCommand # op[1].req.Command
        /\ PositionsOf(before[1], op[1].req.Command) # {}
        /\ PositionsOf(before[1], op[1].req.NewCommand) # {})
        => /\ ret[1] = "Conflict"
           /\ writes[1] = 0
           /\ file = before[1]

\* the conflicting request also carries a new tool name and a new
\* description, both different from what c1's record holds
C8_Witness ==
    /\ Done(1, "UpdateBookmark") /\ ret[1] = "Conflict"
    /\ \E i \in 1..Len(file) :
          /\ file[i].command = op[1].req.Command
          /\ op[1].req.NewToolName \notin {<<>>, file[i].toolname}
          /\ op[1].req.NewDescription \notin {<<>>, file[i].description}

(***************************************************************************)
(* C9  Bulk delete removes exactly the matching group: after a successful  *)
(* DeleteToolBookmarks(t) or DeleteByToolName(t), no stored record has     *)
(* tool name t, and the records whose tool name differs from t are all     *)
(* stored, unchanged and in the order they had.                            *)
(***************************************************************************)
C9_BulkDeleteExact ==
    \A name \in {"DeleteToolBookmarks", "DeleteByToolName"} :
        (Done(1, name) /\ ret[1] = "nil")
            => /\ \A i \in 1..Len(file) : file[i].toolname # op[1].req.ToolName
               /\ file = SelectSeq(before[1],
                                   LAMBDA m : m.toolname # op[1].req.ToolName)

\* two records of the group are removed around one that stays
C9_Witness ==
    /\ Done(1, "DeleteToolBookmarks") /\ ret[1] = "nil"
    /\ Len(before[1]) = 3 /\ Len(file) = 1
    /\ before[1][2] = file[1]

\* one record of the group is removed between two that stay
C9_WitnessOrder ==
    /\ Done(1, "DeleteByToolName") /\ ret[1] = "nil"
    /\ Len(before[1]) = 3 /\ Len(file) = 2
    /\ before[1][2].toolname = op[1].req.ToolName

(***************************************************************************)
(* C10  Bulk delete with zero matches is an error: DeleteToolBookmarks(t)  *)
(* when no stored record has tool name t fails with NotFound, makes no     *)
(* save() and leaves the document as it was; so DeleteToolBookmarks(t)     *)
(* run again on the document a successful call left fails with NotFound.   *)
(***************************************************************************)
C10_BulkDeleteZeroMatches ==
    \A name \in {"DeleteToolBookmarks", "DeleteByToolName"} :
        /\ (Done(1, name)
              /\ \A i \in 1..Len(before[1]) :
                    before[1][i].toolname # op[1].req.ToolName)
              => /\ ret[1] = "NotFound"
                 /\ writes[1] = 0
                 /\ file = before[1]
        /\ (Done(1, name) /\ ret[1] = "nil")
              => /\ DeleteByToolName(file, op[1].req.ToolName).err = "NotFound"
                 /\ DeleteByToolName(file, op[1].req.ToolName).file = file

\* no record of the group among the stored ones
C10_Witness ==
    /\ Done(1, "DeleteToolBookmarks") /\ ret[1] = "NotFound"
    /\ Len(file) >= 2

\* C11: DeleteBookmark(c) / Delete(c) on a stored command removes exactly that
\* record, the others keep their fields and their relative order, and
\* GetBookmark(c) then fails with NotFound; on a command that is not stored
\* the call fails with NotFound and the document is left as it was.
C11_DeleteByCommand ==
    \A p \in Procs :
        (Done(p, "DeleteBookmark") \/ Done(p, "Delete")) =>
            LET c == op[p].req.Command IN
            IF PositionsOf(before[p], c) # {}
            THEN /\ ret[p] = "nil"
                 /\ writes[p] = 1
                 /\ file = SelectSeq(before[p], LAMBDA m : m.command # c)
                 /\ Len(file) = Len(before[p]) - 1
                 /\ GetBookmarkOn(file, c).err = "NotFound"
            ELSE /\ ret[p] = "NotFound"
                 /\ writes[p] = 0
                 /\ file = before[p]

\* the middle record of three was deleted
C11_Witness ==
    /\ Done(1, "DeleteBookmark")
    /\ ret[1] = "nil"
    /\ Len(before[1]) = 3
    /\ before[1][2].command = op[1].req.Command

\* C12: on the store a constructor has just initialised (no file at the path
\* before), the document is the empty document and can be read; on it List
\* returns the empty sequence without error, ListByToolName(t) returns the
\* empty sequence for every t, Exists(c) returns false and GetByCommand(c)
\* fails with NotFound.
C12_EmptyStore ==
    /\ (Done(1, "NewYAMLBookmarkRepository") /\ ~op[1].req.Existed) =>
            /\ ret[1] = "nil"
            /\ disk = "ok"
            /\ file = save(<<>>)
    /\ Done(1, "List") /\ before[1] = save(<<>>) =>
            ret[1] = "nil" /\ resp[1] = <<>>
    /\ Done(1, "ListByToolName") /\ before[1] = save(<<>>) =>
            ret[1] = "nil" /\ resp[1] = <<>>
    /\ Done(1, "Exists") /\ before[1] = save(<<>>) =>
            ret[1] = "nil" /\ resp[1] = FALSE
    /\ Done(1, "GetByCommand") /\ before[1] = save(<<>>) =>
            ret[1] = "NotFound"

\* GetByCommand has returned NotFound on the empty document
C12_Witness ==
    /\ Done(1, "GetByCommand")
    /\ before[1] = save(<<>>)
    /\ file = save(<<>>)
    /\ ret[1] = "NotFound"

\* C17: constructing a handle writes the empty document only when no file
\* exists at the path; on a path whose file holds records the constructor
\* writes nothing, the document is unchanged, and List through the new handle
\* returns the records created through the earlier one.
C17_InitKeepsData ==
    Done(1, "NewYAMLBookmarkRepository") =>
        /\ ret[1] = "nil"
        /\ IF op[1].req.Existed
           THEN /\ writes[1] = 0
                /\ file = before[1]
                /\ List(file) = load(before[1])
           ELSE /\ writes[1] = 1
                /\ file = save(<<>>)

\* a handle was constructed on a file holding two records
C17_Witness ==
    /\ Done(1, "NewYAMLBookmarkRepository")
    /\ op[1].req.Existed
    /\ Len(before[1]) = 2
    /\ Len(List(file)) = 2

\* C18: a listing call changes nothing: List, ListBookmarks and
\* ListByToolName(t) make no write and leave the document as it was, so the
\* same call made again before any mutating call returns what the first one
\* returned.
C18_ListIdempotent ==
    /\ Done(1, "List") =>
            /\ ret[1] = "nil" /\ writes[1] = 0 /\ file = before[1]
            /\ resp[1] = List(file)
    /\ Done(1, "ListBookmarks") =>
            /\ ret[1] = "nil" /\ writes[1] = 0 /\ file = before[1]
            /\ resp[1] = ListBookmarksOn(file)
    /\ Done(1, "ListByToolName") =>
            /\ ret[1] = "nil" /\ writes[1] = 0 /\ file = before[1]
            /\ resp[1] = ListByToolName(file, op[1].req.ToolName)

\* List has returned three records, the first and last of which differ
C18_Witness ==
    /\ Done(1, "List")
    /\ Len(resp[1]) = 3
    /\ resp[1][1] # resp[1][3]

\* C19: when the repository reports NotFound to GetBookmark, UpdateBookmark,
\* DeleteBookmark or DeleteToolBookmarks, the Service returns an error of
\* kind NotFound (not ValidationError, Conflict or success) after that one
\* repository call, without a write; and a request that fails validation is
\* reported as ValidationError, never as NotFound.
C19_ErrorKindPreserved ==
    /\ Done(1, "GetBookmark")
          /\ GetByCommand(before[1], op[1].req.Command).err = "NotFound" =>
            ret[1] = "NotFound" /\ calls[1] = 1 /\ writes[1] = 0 /\ file = before[1]
    /\ Done(1, "UpdateBookmark")
          /\ GetByCommand(before[1], op[1].req.Command).err = "NotFound" =>
            ret[1] = "NotFound" /\ calls[1] = 1 /\ writes[1] = 0 /\ file = before[1]
    /\ Done(1, "DeleteBookmark")
          /\ Delete(before[1], op[1].req.Command).err = "NotFound" =>
            ret[1] = "NotFound" /\ calls[1] = 1 /\ writes[1] = 0 /\ file = before[1]
    /\ Done(1, "DeleteToolBookmarks")
          /\ DeleteByToolName(before[1], op[1].req.ToolName).err = "NotFound" =>
            ret[1] = "NotFound" /\ calls[1] = 1 /\ writes[1] = 0 /\ file = before[1]
    /\ Done(1, "CreateBookmark") /\ validateCreateRequest(op[1].req) # "nil" =>
            ret[1] = "ValidationError" /\ calls[1] = 0

\* UpdateBookmark returned NotFound on a store that holds other records
C19_Witness ==
    /\ Done(1, "UpdateBookmark")
    /\ ret[1] = "NotFound"
    /\ Len(before[1]) = 2

\* C16: CreateBookmark trims its three input fields: for a request whose
\* fields are non-blank text with surrounding whitespace, the existence check
\* is made on the trimmed command (so " a " conflicts with a stored "a"), and
\* on success the record appended to the document and the response carry the
\* trimmed values.
C16_CreateTrims ==
    Done(1, "CreateBookmark") /\ validateCreateRequest(op[1].req) = "nil" =>
        LET req == op[1].req
            trimmed == Bookmark(TrimSpace(req.Command), TrimSpace(req.ToolName),
                                TrimSpace(req.Description)) IN
        /\ Exists(before[1], trimmed.Command) => ret[1] = "Conflict"
        /\ ret[1] = "nil" =>
              /\ resp[1] = modelToDTO(trimmed)
              /\ file = Append(before[1], MarshalBookmark(trimmed))

\* C14: of two concurrent CreateBookmark calls with the same valid command,
\* not stored when the first of them looked, exactly one succeeds; the other
\* fails with a duplicate-key error, either the Service's own (lost at the
\* Exists pre-check) or the repository's ErrBookmarkAlreadyExists (lost at
\* Create), never with a storage failure; one record with the command is
\* stored and it carries the winner's toolName and description.
C14_SameKeyRace ==
    (/\ Done(1, "CreateBookmark") /\ Done(2, "CreateBookmark")
     /\ op[1].req.Command = op[2].req.Command
     /\ \E p \in Procs : ~Exists(before[p], op[p].req.Command)) =>
        \E w \in Procs :
            LET l == CHOOSE q \in Procs : q # w
                example == Bookmark(op[w].req.Command, op[w].req.ToolName,
                                    op[w].req.Description) IN
            /\ ret[w] = "nil"
            /\ resp[w] = modelToDTO(example)
            /\ ret[l] \in {"Conflict", "AlreadyExists"}
            /\ Cardinality(PositionsOf(file, example.Command)) = 1
            /\ \A i \in PositionsOf(file, example.Command) :
                   UnmarshalBookmark(file[i]) = example

\* both calls passed the pre-check; the second lost at Create's duplicate
\* check, and the stored record is the first caller's
C14_Witness ==
    /\ Done(1, "CreateBookmark") /\ Done(2, "CreateBookmark")
    /\ op[1].req.Command = op[2].req.Command
    /\ op[1].req.ToolName # op[2].req.ToolName
    /\ ret[1] = "nil"
    /\ ret[2] = "AlreadyExists"
    /\ Len(file) = 2

\* the second call started while the first was in flight and lost at the
\* Exists pre-check
C14_WitnessPreCheck ==
    /\ Done(1, "CreateBookmark") /\ Done(2, "CreateBookmark")
    /\ op[1].req.Command = op[2].req.Command
    /\ ret[1] = "nil"
    /\ ret[2] = "Conflict"
    /\ ~Exists(before[1], op[1].req.Command)

\* C13: two concurrent Create calls on one repository instance, with distinct
\* commands neither of which was stored, both succeed, and the document then
\* holds the records that were stored before, in their order, followed by
\* the two new records, each once: no create is lost.
C13_NoLostCreate ==
    LET base == IF Len(before[1]) <= Len(before[2]) THEN before[1] ELSE before[2]
        c1 == op[1].req.Command
        c2 == op[2].req.Command IN
    (/\ Done(1, "Create") /\ Done(2, "Create")
     /\ c1 # c2
     /\ ~Exists(base, c1) /\ ~Exists(base, c2)) =>
        /\ ret[1] = "nil" /\ ret[2] = "nil"
        /\ Len(file) = Len(base) + 2
        /\ SubSeq(file, 1, Len(base)) = base
        /\ \A p \in Procs :
               \E i \in Len(base) + 1 .. Len(file) :
                   UnmarshalBookmark(file[i]) = op[p].req

\* the second Create met the mutex held by the first (it loaded the document
\* the first one left) and both records follow an earlier one
C13_Witness ==
    /\ Done(1, "Create") /\ Done(2, "Create")
    /\ op[1].req.Command # op[2].req.Command
    /\ ret[1] = "nil" /\ ret[2] = "nil"
    /\ Len(before[1]) = 1
    /\ Len(before[2]) = 2
    /\ Len(file) = 3

C21_FailedRenameKeepsOld ==
    [][\A p \in Procs :
          (/\ op[p].name = "UpdateBookmark" /\ IsRename(op[p].req)
           /\ pc[p] # "done" /\ pc'[p] = "done"
           /\ ret'[p] \in {"Conflict", "AlreadyExists"}) =>
              /\ Exists(file', op[p].req.Command)
              /\ GetByCommand(file', op[p].req.Command)
                    = GetByCommand(before[p], op[p].req.Command)]_vars

\* C22: of two concurrent UpdateBookmark calls on the same stored command,
\* one bringing only a new tool name and the other only a new description,
\* if both return success the stored record carries the new tool name and
\* the new description.
C22_PartialUpdatesCompose ==
    \A p \in Procs : \A q \in Procs \ {p} :
        (/\ Done(p, "UpdateBookmark") /\ Done(q, "UpdateBookmark")
         /\ op[p].req.Command = op[q].req.Command
         /\ op[p].req.NewToolName # <<>> /\ op[p].req.NewDescription = <<>>
         /\ op[q].req.NewToolName = <<>> /\ op[q].req.NewDescription # <<>>
         /\ ret[p] = "nil" /\ ret[q] = "nil") =>
            LET stored == GetByCommand(file, op[p].req.Command) IN
            /\ stored.err = "nil"
            /\ stored.bookmark.ToolName = op[p].req.NewToolName
            /\ stored.bookmark.Description = op[q].req.NewDescription

\* C23: List returns the records in the order of their successful creates: a
\* successful Create / CreateBookmark puts its record after all the others,
\* a failed one leaves the document as it was; and a successful Update, or
\* UpdateBookmark that keeps the command, leaves every record at its index,
\* the updated one included.
C23_CollectionOrder ==
    /\ (Done(1, "Create") \/ Done(1, "CreateBookmark")) =>
           LET example == Bookmark(op[1].req.Command, op[1].req.ToolName,
                                   op[1].req.Description) IN
           IF ret[1] = "nil"
           THEN List(file) = Append(List(before[1]), example)
           ELSE file = before[1]
    /\ (Done(1, "Update") \/ (Done(1, "UpdateBookmark") /\ ~IsRename(op[1].req)))
          /\ ret[1] = "nil" =>
           LET c == op[1].req.Command
               old == GetByCommand(before[1], c).bookmark
               new == IF op[1].name = "Update" THEN op[1].req
                      ELSE ApplyUpdate(old, op[1].req) IN
           /\ Len(List(file)) = Len(List(before[1]))
           /\ \A i \in 1..Len(List(file)) :
                  IF List(before[1])[i].Command = c
                  THEN List(file)[i] = new
                  ELSE List(file)[i] = List(before[1])[i]

\* the first of three records was given another tool name in place
C23_Witness ==
    /\ Done(1, "Update") /\ ret[1] = "nil"
    /\ Len(before[1]) = 3
    /\ before[1][1].command = op[1].req.Command
    /\ file[1] # before[1][1]
    /\ file[1].command = before[1][1].command

\* C24: after a successful UpdateBookmark whose newCommand differs from
\* command, List is the previous listing without the old entry, in the same
\* order, followed by the renamed record as its last element.
C24_RenameAppends ==
    (Done(1, "UpdateBookmark") /\ IsRename(op[1].req) /\ ret[1] = "nil") =>
        LET req == op[1].req
            old == GetByCommand(before[1], req.Command).bookmark
            renamed == [ApplyUpdate(old, req) EXCEPT !.Command = req.NewCommand] IN
        /\ List(file) = Append(SelectSeq(List(before[1]),
                                         LAMBDA b : b.Command # req.Command),
                               renamed)
        /\ List(file)[Len(List(file))].Command = req.NewCommand

\* the first of two records was renamed: the other one is now first
C24_Witness ==
    /\ Done(1, "UpdateBookmark") /\ IsRename(op[1].req) /\ ret[1] = "nil"
    /\ Len(before[1]) = 2
    /\ before[1][1].command = op[1].req.Command
    /\ file[1] = before[1][2]
    /\ file[2].command = op[1].req.NewCommand

\* C27: on one repository instance at most one mutating method is inside its
\* load-mutate-save section, and while one is, no read method is between
\* RLock and RUnlock; a read method inside its section holds the document
\* the file holds, never one from between a writer's load and its save.
C27_ReadersWriterExclusion ==
    /\ Cardinality(InWriteSection) <= 1
    /\ InWriteSection # {} => InReadSection = {}
    /\ \A r \in InReadSection : loaded[r] = file
    /\ \A w \in InWriteSection : mu.writer = w /\ loaded[w] = file

\* two read methods are inside their sections at the same time
C27_Witness ==
    /\ InReadSection = Procs
    /\ mu.readers = Procs
    /\ Len(file) >= 1

\* C28: Update(b) and UpdateBookmark(req) on a command that is not stored
\* fail with NotFound, write nothing and leave the document as it was; no
\* record with b.command, req.command or req.newCommand comes into being.
C28_UpdateNeverInserts ==
    /\ Done(1, "Update") /\ ~Exists(before[1], op[1].req.Command) =>
           /\ ret[1] = "NotFound"
           /\ writes[1] = 0
           /\ file = before[1]
           /\ ~Exists(file, op[1].req.Command)
    /\ Done(1, "UpdateBookmark") /\ ~Exists(before[1], op[1].req.Command) =>
           /\ ret[1] = "NotFound"
           /\ writes[1] = 0
           /\ file = before[1]
           /\ ~Exists(file, op[1].req.Command)
           /\ ~Exists(before[1], op[1].req.NewCommand) =>
                  ~Exists(file, op[1].req.NewCommand)

\* Update was called with a command that none of the two stored records has
C28_Witness ==
    /\ Done(1, "Update")
    /\ ~Exists(before[1], op[1].req.Command)
    /\ Len(before[1]) = 2
    /\ Len(file) = 2

\* C29: a repository method called, directly or by the Service, while the
\* file cannot be read or parsed returns a StorageError (not success, not
\* NotFound, no result) and writes nothing; the Service method that called
\* it returns with that error at once, without another repository call.
C29_StorageFailureSurfaced ==
    [][(disk # "ok" /\ calls'[1] = calls[1] + 1) =>
          /\ pc'[1] = "done"
          /\ ret'[1] = "StorageError"
          /\ file' = file
          /\ writes'[1] = IF pc[1] = "idle" THEN 0 ELSE writes[1]
          /\ IF op'[1].name = "Exists" THEN resp'[1] = FALSE
             ELSE resp'[1] = NoResp]_vars

\* Exists has failed on a file that is unreadable and holds the record
C29_Witness ==
    /\ Done(1, "Exists")
    /\ ret[1] = "StorageError"
    /\ disk = "unreadable"
    /\ Exists(file, op[1].req.Command)

\* C25: with two repository instances on one file, when two Create calls with
\* distinct new commands have both loaded the same document and both have
\* returned success, the file holds that document plus the record of the
\* call that saved last; the record of the other call, whose Create returned
\* success too, is not in it.
C25_CrossInstanceLostUpdate ==
    (/\ Done(1, "Create") /\ Done(2, "Create")
     /\ ret[1] = "nil" /\ ret[2] = "nil"
     /\ op[1].req.Command # op[2].req.Command
     /\ loaded[1] = loaded[2]) =>
        \E w \in Procs :
            LET l == CHOOSE q \in Procs : q # w IN
            /\ List(file) = Append(List(loaded[w]), op[w].req)
            /\ ~Exists(file, op[l].req.Command)

\* both creates returned success, nobody deleted anything, and caller 1's
\* record is not in the document
C25_Witness ==
    /\ Done(1, "Create") /\ Done(2, "Create")
    /\ ret[1] = "nil" /\ ret[2] = "nil"
    /\ Len(loaded[1]) = 1
    /\ ~Exists(file, op[1].req.Command)
    /\ Exists(file, op[2].req.Command)

\* C30: with two repository instances on one file that starts as the empty
\* document, whatever Create, Update, Delete and DeleteByToolName calls go
\* through either instance and however their loads and saves interleave, no
\* command occurs twice in the file, nor in a document a call has loaded.
C30_CrossInstanceUniqueness ==
    /\ \A c \in LockCommands : Cardinality(PositionsOf(file, c)) <= 1
    /\ \A p \in Procs : \A c \in LockCommands :
           Cardinality(PositionsOf(loaded[p], c)) <= 1
    /\ \A i \in 1..Len(file) : file[i].command \in LockCommands

\* both instances created the same command from the same loaded document,
\* both returned success, and the file holds the command once
C30_Witness ==
    /\ Done(1, "Create") /\ Done(2, "Create")
    /\ ret[1] = "nil" /\ ret[2] = "nil"
    /\ op[1].req.Command = op[2].req.Command
    /\ op[1].req.ToolName # op[2].req.ToolName
    /\ Len(loaded[1]) = 1 /\ loaded[1] = loaded[2]
    /\ Cardinality(PositionsOf(file, op[1].req.Command)) = 1

\* C26: if the process stops at any point during Create, Update, Delete or
\* DeleteByToolName, the file afterwards parses and holds either the complete
\* document the method loaded or the complete document the method was to
\* save, never an empty or partially written one.
C26_AtomicRewrite ==
    \A p \in Procs :
        (pc[p] = "stopped" /\ op[p].name \in Mutating) =>
            /\ disk = "ok"
            /\ \/ file = loaded[p]
               \/ file = Mutate(op[p].name, loaded[p], op[p].req).file

====
